---- MODULE Spec2Model ----
(***************************************************************************)
(* AnalyzerService of gointelx: GetConfigs and HealthCheck                 *)
(* (src/gointelx/analyzer.go).  Each call builds a request, has the        *)
(* transport client execute it, decodes the JSON payload and, for          *)
(* GetConfigs, emits the decoded map in sorted key order.                  *)
(*                                                                         *)
(* Strings are sequences of one-character strings, so that concatenation,  *)
(* fmt.Sprintf and the byte-wise order of sort.Strings are computed.       *)
(***************************************************************************)
EXTENDS Integers, Sequences, FiniteSets, TLC

VARIABLES options, calls

vars == <<options, calls>>

----------------------------------------------------------------------------
(* Bounds *)

\* number of call slots (goroutines of the caller issuing calls)
NumCalls == 2
\* longest configured base URL, in characters
MaxUrlLen == 1
\* longest analyzer name handed to HealthCheck, in characters
MaxNameLen == 1
\* most members of the JSON object a listing response carries
MaxEntries == 3

----------------------------------------------------------------------------
(* Strings *)

\* all strings over chars of length at most n
Strs(chars, n) == UNION {[1..k -> chars] : k \in 0..n}

\* the byte value of a character (ASCII), for the characters the model uses
\* in analyzer names
Byte(c) ==
  CASE c = "%" -> 37
    [] c = "/" -> 47
    [] c = "B" -> 66
    [] c = "a" -> 97
    [] c = "b" -> 98
    [] c = "s" -> 115

\* Go's string comparison a < b: byte-wise lexicographic, a proper prefix
\* is smaller
StrLess(a, b) ==
  \E i \in 1..(Len(b)) :
     /\ \A j \in 1..(i-1) : j <= Len(a) /\ a[j] = b[j]
     /\ i - 1 <= Len(a)
     /\ \/ i = Len(a) + 1
        \/ i <= Len(a) /\ Byte(a[i]) < Byte(b[i])

RECURSIVE InsertSorted(_, _)
InsertSorted(x, s) ==
  IF s = <<>> THEN <<x>>
  ELSE IF StrLess(Head(s), x) THEN <<Head(s)>> \o InsertSorted(x, Tail(s))
  ELSE <<x>> \o s

RECURSIVE SortFrom(_, _)
SortFrom(s, acc) ==
  IF s = <<>> THEN acc ELSE SortFrom(Tail(s), InsertSorted(Head(s), acc))

\* a sort that was dropped: the slice stays in map-iteration order
SortStringsDropped(a) == a

\* sort.Strings(analyzerNames): ascending, by Go's string order
SortStrings(a) == SortFrom(a, <<>>)

----------------------------------------------------------------------------
(* fmt.Sprintf, for a format and string operands.  The characters of the   *)
(* model's formats are letters, "/", "_" and "%": no flag, width,          *)
(* precision or argument index ever follows a "%".                         *)

PercentBang == <<"%", "!">>
NoVerbString == <<"%", "!", "(", "N", "O", "V", "E", "R", "B", ")">>
MissingString == <<"(", "M", "I", "S", "S", "I", "N", "G", ")">>
ExtraString == <<"%", "!", "(", "E", "X", "T", "R", "A", " ">>
StringEquals == <<"s", "t", "r", "i", "n", "g", "=">>
TypeString == <<"s", "t", "r", "i", "n", "g">>

\* the verbs of the model's alphabet that print a string operand as it is
StringVerbs == {"s", "v"}

\* printArg for a string operand under verb
PrintArg(arg, verb) ==
  IF verb \in StringVerbs THEN arg
  ELSE IF verb = "T" THEN TypeString
  ELSE PercentBang \o <<verb>> \o <<"(">> \o StringEquals \o arg \o <<")">>

RECURSIVE doPrintf(_, _)
doPrintf(format, a) ==
  IF format = <<>>
  THEN IF a = <<>> THEN <<>>
       ELSE ExtraString \o StringEquals \o Head(a) \o <<")">>
  ELSE IF Head(format) # "%"
  THEN <<Head(format)>> \o doPrintf(Tail(format), a)
  ELSE IF Len(format) = 1
  THEN NoVerbString \o doPrintf(<<>>, a)
  ELSE LET verb == format[2]
           rest == SubSeq(format, 3, Len(format))
       IN  IF verb = "%" THEN <<"%">> \o doPrintf(rest, a)
           ELSE IF a = <<>>
           THEN PercentBang \o <<verb>> \o MissingString \o doPrintf(rest, a)
           ELSE PrintArg(Head(a), verb) \o doPrintf(rest, Tail(a))

Sprintf(format, a) == doPrintf(format, a)

----------------------------------------------------------------------------
(* JSON payloads.  A payload is malformed text or a JSON value; an object  *)
(* keeps its members in the order of the text, duplicate keys included.    *)

JValue(kind, b, s, members) ==
  [kind |-> kind, b |-> b, s |-> s, members |-> members]

JMalformed == JValue("malformed", FALSE, <<>>, <<>>)
JNull == JValue("null", FALSE, <<>>, <<>>)
JArray == JValue("array", FALSE, <<>>, <<>>)
JBool(b) == JValue("bool", b, <<>>, <<>>)
JString(s) == JValue("string", FALSE, s, <<>>)
JObject(members) == JValue("object", FALSE, <<>>, members)
Member(key, val) == [key |-> key, val |-> val]

\* errors, as the caller sees them
NoError == [type |-> "nil", code |-> 0]
SyntaxError == [type |-> "SyntaxError", code |-> 0]
UnmarshalTypeError == [type |-> "UnmarshalTypeError", code |-> 0]
DecodeErrors == {SyntaxError, UnmarshalTypeError}

\* ASCII case folding, as encoding/json matches object keys to struct fields
UpperCase == <<"B", "D", "S", "T">>
LowerCase == <<"b", "d", "s", "t">>
Fold(c) ==
  IF \E i \in 1..Len(UpperCase) : UpperCase[i] = c
  THEN LowerCase[CHOOSE i \in 1..Len(UpperCase) : UpperCase[i] = c]
  ELSE c
EqualFold(a, b) ==
  /\ Len(a) = Len(b)
  /\ \A i \in 1..Len(a) : Fold(a[i]) = Fold(b[i])

\* the first error of a decode is the one reported
SaveError(saved, e) == IF saved = NoError THEN e ELSE saved

\* json tags of AnalyzerConfig
TagType == <<"t", "y", "p", "e">>
TagDockerBased ==
  <<"d", "o", "c", "k", "e", "r", "_", "b", "a", "s", "e", "d">>

\* AnalyzerConfig{}: the fields the model keeps of the struct
ZeroAnalyzerConfig == [Type |-> <<>>, DockerBased |-> FALSE]

\* one member of a JSON object decoded into an AnalyzerConfig
AnalyzerConfigField(acc, m) ==
  IF EqualFold(m.key, TagType)
  THEN IF m.val.kind = "string"
       THEN [acc EXCEPT !.v.Type = m.val.s]
       ELSE IF m.val.kind = "null" THEN acc
       ELSE [acc EXCEPT !.err = SaveError(acc.err, UnmarshalTypeError)]
  ELSE IF EqualFold(m.key, TagDockerBased)
  THEN IF m.val.kind = "bool"
       THEN [acc EXCEPT !.v.DockerBased = m.val.b]
       ELSE IF m.val.kind = "null" THEN acc
       ELSE [acc EXCEPT !.err = SaveError(acc.err, UnmarshalTypeError)]
  ELSE acc

RECURSIVE AnalyzerConfigFields(_, _)
AnalyzerConfigFields(members, acc) ==
  IF members = <<>> THEN acc
  ELSE AnalyzerConfigFields(Tail(members),
                            AnalyzerConfigField(acc, Head(members)))

\* a JSON value decoded into a fresh AnalyzerConfig (a map element)
DecodeAnalyzerConfig(val) ==
  IF val.kind = "object"
  THEN AnalyzerConfigFields(val.members,
                            [v |-> ZeroAnalyzerConfig, err |-> NoError])
  ELSE IF val.kind = "null"
  THEN [v |-> ZeroAnalyzerConfig, err |-> NoError]
  ELSE [v |-> ZeroAnalyzerConfig, err |-> UnmarshalTypeError]

\* map[string]AnalyzerConfig{}
EmptyMap == [k \in {} |-> ZeroAnalyzerConfig]

RECURSIVE ConfigMapMembers(_, _)
ConfigMapMembers(members, acc) ==
  IF members = <<>> THEN acc
  ELSE LET m == Head(members)
           e == DecodeAnalyzerConfig(m.val)
       IN  ConfigMapMembers(Tail(members),
             [v |-> (m.key :> e.v) @@ acc.v,
              err |-> SaveError(acc.err, e.err)])

\* json.Unmarshal(data, &analyzerConfigurationResponse)
UnmarshalConfigs(data, into) ==
  IF data.kind = "malformed" THEN [v |-> into, err |-> SyntaxError]
  ELSE IF data.kind = "null" THEN [v |-> into, err |-> NoError]
  ELSE IF data.kind = "object"
  THEN ConfigMapMembers(data.members, [v |-> into, err |-> NoError])
  ELSE [v |-> into, err |-> UnmarshalTypeError]

\* json tag of StatusResponse
TagStatus == <<"s", "t", "a", "t", "u", "s">>

\* StatusResponse{}
ZeroStatusResponse == [Status |-> FALSE]

StatusField(acc, m) ==
  IF EqualFold(m.key, TagStatus)
  THEN IF m.val.kind = "bool"
       THEN [acc EXCEPT !.v.Status = m.val.b]
       ELSE IF m.val.kind = "null" THEN acc
       ELSE [acc EXCEPT !.err = SaveError(acc.err, UnmarshalTypeError)]
  ELSE acc

RECURSIVE StatusFields(_, _)
StatusFields(members, acc) ==
  IF members = <<>> THEN acc
  ELSE StatusFields(Tail(members), StatusField(acc, Head(members)))

\* json.Unmarshal(data, &status)
UnmarshalStatus(data, into) ==
  IF data.kind = "malformed" THEN [v |-> into, err |-> SyntaxError]
  ELSE IF data.kind = "null" THEN [v |-> into, err |-> NoError]
  ELSE IF data.kind = "object"
  THEN StatusFields(data.members, [v |-> into, err |-> NoError])
  ELSE [v |-> into, err |-> UnmarshalTypeError]

----------------------------------------------------------------------------
(* The transport client (IntelXClient) and the route constants             *)

\* constants.ANALYZER_CONFIG_URL: "/api/get_analyzer_configs"
ANALYZER_CONFIG_URL ==
  <<"/", "a", "p", "i", "/", "g", "e", "t", "_", "a", "n", "a", "l", "y", "z", "e", "r", "_", "c", "o", "n", "f", "i", "g", "s">>

\* constants.ANALYZER_HEALTHCHECK_URL: "/api/analyzer/%s/healthcheck"
ANALYZER_HEALTHCHECK_URL ==
  <<"/", "a", "p", "i", "/", "a", "n", "a", "l", "y", "z", "e", "r", "/", "%", "s", "/", "h", "e", "a", "l", "t", "h", "c", "h", "e", "c", "k">>

ConstructionError == [type |-> "ConstructionError", code |-> 0]
NetworkError == [type |-> "NetworkError", code |-> 0]
ContextCancelled == [type |-> "ContextCancelled", code |-> 0]
HTTPStatusError(status) == [type |-> "HTTPStatusError", code |-> status]

NoRequest == [method |-> "", contentType |-> "", body |-> "", url |-> <<>>]
NoResponse == [Data |-> JNull]

\* client.buildRequest(ctx, method, contentType, body, url): fails when the
\* context is already cancelled or the URL is malformed.  Which URLs the
\* transport rejects is its own matter: wellFormed is its verdict.
buildRequest(ctxDone, method, contentType, body, url, wellFormed) ==
  IF ctxDone \/ ~wellFormed
  THEN [request |-> NoRequest, err |-> ConstructionError]
  ELSE [request |-> [method |-> method, contentType |-> contentType,
                     body |-> body, url |-> url],
        err |-> NoError]

\* what the network does with a request: fails below HTTP, or answers
NetFail == [kind |-> "fail", status |-> 0, data |-> JNull]
Response(status, data) == [kind |-> "response", status |-> status, data |-> data]
NoNet == [kind |-> "none", status |-> 0, data |-> JNull]

Is2xx(status) == status >= 200 /\ status < 300

\* client.newRequest(ctx, request): the cancellation of the context wins
\* over whatever the network does; a transport failure is a NetworkError; a
\* non-2xx answer is an HTTPStatusError carrying the status; a 2xx answer is
\* the raw payload.
newRequest(ctxDone, request, net) ==
  IF ctxDone THEN [successResp |-> NoResponse, err |-> ContextCancelled]
  ELSE IF net.kind = "fail"
  THEN [successResp |-> NoResponse, err |-> NetworkError]
  ELSE IF ~Is2xx(net.status)
  THEN [successResp |-> NoResponse, err |-> HTTPStatusError(net.status)]
  ELSE [successResp |-> [Data |-> net.data], err |-> NoError]

----------------------------------------------------------------------------
(* AnalyzerService                                                         *)

\* a Go slice: nil or not, and its elements
NilSlice == [isNil |-> TRUE, items |-> <<>>]
GoAppend(slice, x) == [isNil |-> FALSE, items |-> Append(slice.items, x)]

\* what a call returns beside its error: GetConfigs a pointer to a slice
\* (kind "nil" is the nil pointer), HealthCheck a bool
NilResult == [kind |-> "nil", slice |-> NilSlice, b |-> FALSE]
ListResult(slice) == [kind |-> "list", slice |-> slice, b |-> FALSE]
BoolResult(b) == [kind |-> "bool", slice |-> NilSlice, b |-> b]
NoResult == [kind |-> "none", slice |-> NilSlice, b |-> FALSE]

\* the orders in which a range over a map with these keys may visit them
Orders(keys) ==
  {o \in [1..Cardinality(keys) -> keys] :
     \A i, j \in 1..Cardinality(keys) : o[i] = o[j] => i = j}

\* var analyzerConfigurationList []AnalyzerConfig: a nil slice
NilConfigList == NilSlice

\* analyzerConfigurationList := []AnalyzerConfig{}
NewConfigList == [isNil |-> FALSE, items |-> <<>>]

\* for _, analyzerName := range analyzerNames { append(list, response[name]) }
RECURSIVE CollectConfigs(_, _, _)
CollectConfigs(analyzerNames, response, list) ==
  IF analyzerNames = <<>> THEN list
  ELSE CollectConfigs(Tail(analyzerNames), response,
                      GoAppend(list, response[Head(analyzerNames)]))

\* the keys a range over the decoded payload visits
ConfigKeys(data) == DOMAIN UnmarshalConfigs(data, EmptyMap).v

\* GetConfigs from the payload on; order is the order in which the range
\* over the decoded map visits its keys
GetConfigsDecode(data, order) ==
  LET u == UnmarshalConfigs(data, EmptyMap)
  IN  IF u.err # NoError
      THEN [result |-> NilResult, err |-> u.err, decoded |-> TRUE]
      ELSE [result |-> ListResult(CollectConfigs(SortStrings(order), u.v,
                                                 NewConfigList)),
            err |-> NoError, decoded |-> TRUE]

\* an error of newRequest swallowed: the listing goes on with no payload
GetConfigsAfterNewRequestSwallow(r, order) ==
  IF r.err # NoError
  THEN [result |-> ListResult(NewConfigList), err |-> NoError,
        decoded |-> FALSE]
  ELSE GetConfigsDecode(r.successResp.Data, order)

\* GetConfigs after newRequest has returned r
GetConfigsAfterNewRequest(r, order) ==
  IF r.err # NoError
  THEN [result |-> NilResult, err |-> r.err, decoded |-> FALSE]
  ELSE GetConfigsDecode(r.successResp.Data, order)

\* a health check that answers true whatever the status record says
HealthCheckDecodeAlwaysUp(data) ==
  LET u == UnmarshalStatus(data, ZeroStatusResponse)
  IN  IF u.err # NoError
      THEN [result |-> BoolResult(FALSE), err |-> u.err, decoded |-> TRUE]
      ELSE [result |-> BoolResult(TRUE), err |-> NoError, decoded |-> TRUE]

\* HealthCheck from the payload on
HealthCheckDecode(data) ==
  LET u == UnmarshalStatus(data, ZeroStatusResponse)
  IN  IF u.err # NoError
      THEN [result |-> BoolResult(FALSE), err |-> u.err, decoded |-> TRUE]
      ELSE [result |-> BoolResult(u.v.Status), err |-> NoError,
            decoded |-> TRUE]

\* HealthCheck after newRequest has returned r
HealthCheckAfterNewRequest(r) ==
  IF r.err # NoError
  THEN [result |-> BoolResult(FALSE), err |-> r.err, decoded |-> FALSE]
  ELSE HealthCheckDecode(r.successResp.Data)

\* a request built with POST
GetConfigsRequestArgsPost(url) ==
  [method |-> "POST", contentType |-> "application/json", body |-> "nil",
   url |-> url \o ANALYZER_CONFIG_URL]

\* the arguments GetConfigs hands to buildRequest
GetConfigsRequestArgs(url) ==
  [method |-> "GET", contentType |-> "application/json", body |-> "nil",
   url |-> url \o ANALYZER_CONFIG_URL]

\* the arguments HealthCheck hands to buildRequest
HealthCheckRequestArgs(url, analyzerName) ==
  [method |-> "GET", contentType |-> "application/json", body |-> "nil",
   url |-> Sprintf(url \o ANALYZER_HEALTHCHECK_URL, <<analyzerName>>)]

----------------------------------------------------------------------------
(* The calls.  A call is at "called" once the caller has invoked the       *)
(* method, at "built" when buildRequest has returned a request, at         *)
(* "inflight" while newRequest waits for the network, and at "done" when   *)
(* the method has returned.  cancelledAt is where the call stood when the  *)
(* caller cancelled its context; trace lists the steps that have returned, *)
(* each with its error.                                                    *)

Calls == 1..NumCalls

IdleCall ==
  [pc |-> "idle", op |-> "none", analyzerName |-> <<>>,
   cancelledAt |-> "never", args |-> NoRequest, request |-> NoRequest,
   net |-> NoNet, trace |-> <<>>, result |-> NoResult, err |-> NoError]

\* ctx.Done() is closed
CtxDone(call) == call.cancelledAt # "never"

Step(name, err) == [step |-> name, err |-> err]

\* the method returns once buildRequest has returned b
AfterBuildRequest(call, args, b, zero) ==
  IF b.err # NoError
  THEN [call EXCEPT !.pc = "done", !.args = args,
                    !.trace = Append(@, Step("buildRequest", b.err)),
                    !.result = zero, !.err = b.err]
  ELSE [call EXCEPT !.pc = "built", !.args = args, !.request = b.request,
                    !.trace = Append(@, Step("buildRequest", NoError))]

\* GetConfigs up to the return of buildRequest
GetConfigsBuild(call, url, wellFormed) ==
  LET args == GetConfigsRequestArgs(url)
  IN  AfterBuildRequest(call, args,
        buildRequest(CtxDone(call), args.method, args.contentType,
                     args.body, args.url, wellFormed),
        NilResult)

\* HealthCheck up to the return of buildRequest
HealthCheckBuild(call, url, wellFormed) ==
  LET args == HealthCheckRequestArgs(url, call.analyzerName)
  IN  AfterBuildRequest(call, args,
        buildRequest(CtxDone(call), args.method, args.contentType,
                     args.body, args.url, wellFormed),
        BoolResult(FALSE))

\* the method returns out once newRequest has returned r; net is the answer
\* newRequest got, none when the cancellation cut the wait short
Returned(call, net, r, out) ==
  [call EXCEPT !.pc = "done",
               !.net = IF r.err = ContextCancelled THEN NoNet ELSE net,
               !.trace = IF out.decoded
                         THEN @ \o <<Step("newRequest", r.err),
                                     Step("Unmarshal", out.err)>>
                         ELSE Append(@, Step("newRequest", r.err)),
               !.result = out.result, !.err = out.err]

\* newRequest handed a fresh context instead of the caller's
GetConfigsNewRequestBackground(call, net) ==
  newRequest(FALSE, call.request, net)

\* analyzerService.client.newRequest(ctx, request) in GetConfigs
GetConfigsNewRequest(call, net) ==
  newRequest(CtxDone(call), call.request, net)

\* analyzerService.client.newRequest(ctx, request) in HealthCheck
HealthCheckNewRequest(call, net) ==
  newRequest(CtxDone(call), call.request, net)

\* a GetConfigs that executes the request again after a network failure
GetConfigsResumeRetry(call, net, order) ==
  LET r == GetConfigsNewRequest(call, net)
  IN  IF r.err = NetworkError
      THEN [call EXCEPT !.pc = "built", !.net = net,
                        !.trace = Append(@, Step("newRequest", r.err))]
      ELSE Returned(call, net, r, GetConfigsAfterNewRequest(r, order))

\* GetConfigs from the return of newRequest on
GetConfigsResume(call, net, order) ==
  LET r == GetConfigsNewRequest(call, net)
  IN  Returned(call, net, r, GetConfigsAfterNewRequest(r, order))

\* HealthCheck from the return of newRequest on
HealthCheckResume(call, net) ==
  LET r == HealthCheckNewRequest(call, net)
  IN  Returned(call, net, r, HealthCheckAfterNewRequest(r))

----------------------------------------------------------------------------
(* What the caller and the server may supply                               *)

UrlChars == {"h", "%"}
BaseUrls == Strs(UrlChars, MaxUrlLen)

NameChars == {"a", "B", "%"}
AnalyzerNames == Strs(NameChars, MaxNameLen)

StatusCodes == {200, 302, 404, 500}

\* the analyzers a server may list: an upper-case name, a lower-case name
\* and a name that extends another
ListedNames == {<<"B">>, <<"a">>, <<"a", "B">>}

FileConfig ==
  JObject(<<Member(TagType, JString(<<"f">>)),
            Member(TagDockerBased, JBool(TRUE))>>)
ObservableConfig == JObject(<<Member(TagType, JString(<<"o">>))>>)
ConfigValues == {FileConfig, ObservableConfig}

ListingMembers == {Member(k, v) : k \in ListedNames, v \in ConfigValues}

\* the listings of at most n members, every member a well-formed config
Listings(n) == {JObject(ms) : ms \in UNION {[1..k -> ListingMembers] : k \in 0..n}}

\* payloads that are not a listing: no JSON, not an object, or an object
\* with a member that is no config
OddListings ==
  {JMalformed, JNull, JArray, JString(<<"a">>),
   JObject(<<Member(<<"a">>, JString(<<"f">>))>>),
   JObject(<<Member(<<"a">>, JNull)>>),
   JObject(<<Member(<<"a">>, JObject(<<Member(TagType, JBool(TRUE))>>))>>),
   JObject(<<Member(<<"B">>, FileConfig), Member(<<"a">>, JArray)>>)}

ListingBodies(n) == Listings(n) \cup OddListings

\* the status records, and the payloads that are none
StatusRecords ==
  {JObject(<<Member(TagStatus, JBool(b))>>) : b \in BOOLEAN}
OddStatusBodies ==
  {JMalformed, JNull, JArray, JBool(TRUE), JObject(<<>>),
   JObject(<<Member(<<"S", "t", "a", "t", "u", "s">>, JBool(TRUE))>>),
   JObject(<<Member(TagStatus, JString(<<"a">>))>>),
   JObject(<<Member(TagType, JBool(TRUE))>>),
   JObject(<<Member(TagStatus, JBool(TRUE)), Member(TagStatus, JBool(FALSE))>>)}
HealthBodies == StatusRecords \cup OddStatusBodies

\* The caller and the server of the concurrent workload: one base URL, two
\* analyzer names and a few payloads.
ConcUrls == {<<"h">>}
ConcNames == {<<"a">>, <<"B">>}
ConcListings ==
  {JObject(<<>>), JMalformed,
   JObject(<<Member(<<"a">>, FileConfig), Member(<<"B">>, ObservableConfig)>>)}
ConcHealthBodies == StatusRecords \cup {JMalformed}

\* what a workload supplies: "sequential" everything, "concurrent" the few
NamesOf(w) == IF w = "sequential" THEN AnalyzerNames ELSE ConcNames
ListingBodiesOf(w) ==
  IF w = "sequential" THEN ListingBodies(MaxEntries) ELSE ConcListings
HealthBodiesOf(w) == IF w = "sequential" THEN HealthBodies ELSE ConcHealthBodies

\* the payloads an answer may carry to a call: once the context of the call
\* is done newRequest reads none
Readable(call, bodies) == IF CtxDone(call) THEN {} ELSE bodies

\* what the network may do with a request whose 2xx payloads are bodies
NetOutcomes(bodies) ==
  {NetFail}
    \cup {Response(s, JNull) : s \in {s \in StatusCodes : ~Is2xx(s)}}
    \cup {Response(s, d) : s \in {s \in StatusCodes : Is2xx(s)}, d \in bodies}

----------------------------------------------------------------------------
(* Actions                                                                 *)

Set(c, call) == calls' = [calls EXCEPT ![c] = call]

\* the caller invokes GetConfigs(ctx)
CallGetConfigs(c) ==
  /\ calls[c].pc = "idle"
  /\ Set(c, [IdleCall EXCEPT !.pc = "called", !.op = "GetConfigs"])
  /\ UNCHANGED options

\* the caller invokes HealthCheck(ctx, analyzerName)
CallHealthCheck(c, w) ==
  /\ calls[c].pc = "idle"
  /\ \E analyzerName \in NamesOf(w) :
       Set(c, [IdleCall EXCEPT !.pc = "called", !.op = "HealthCheck",
                               !.analyzerName = analyzerName])
  /\ UNCHANGED options

\* the caller cancels the context of a call that has not returned
Cancel(c) ==
  /\ calls[c].pc \in {"called", "built", "inflight"}
  /\ calls[c].cancelledAt = "never"
  /\ Set(c, [calls[c] EXCEPT !.cancelledAt = calls[c].pc])
  /\ UNCHANGED options

\* a GetConfigs whose URL is appended to the client's own options
GetConfigsBuildStepShared(c) ==
  /\ calls[c].pc = "called"
  /\ calls[c].op = "GetConfigs"
  /\ \E wellFormed \in BOOLEAN :
       Set(c, GetConfigsBuild(calls[c], options.Url, wellFormed))
  /\ options' = [options EXCEPT !.Url = @ \o ANALYZER_CONFIG_URL]

\* GetConfigs builds its request
GetConfigsBuildStep(c) ==
  /\ calls[c].pc = "called"
  /\ calls[c].op = "GetConfigs"
  /\ \E wellFormed \in BOOLEAN :
       Set(c, GetConfigsBuild(calls[c], options.Url, wellFormed))
  /\ UNCHANGED options

\* HealthCheck builds its request
HealthCheckBuildStep(c) ==
  /\ calls[c].pc = "called"
  /\ calls[c].op = "HealthCheck"
  /\ \E wellFormed \in BOOLEAN :
       Set(c, HealthCheckBuild(calls[c], options.Url, wellFormed))
  /\ UNCHANGED options

\* the call enters newRequest, which sends the request
Send(c) ==
  /\ calls[c].pc = "built"
  /\ Set(c, [calls[c] EXCEPT !.pc = "inflight"])
  /\ UNCHANGED options

\* newRequest returns to GetConfigs, which runs to its end
GetConfigsResolve(c, w) ==
  /\ calls[c].pc = "inflight"
  /\ calls[c].op = "GetConfigs"
  /\ \E net \in NetOutcomes(Readable(calls[c], ListingBodiesOf(w))) :
       \E order \in Orders(ConfigKeys(net.data)) :
         Set(c, GetConfigsResume(calls[c], net, order))
  /\ UNCHANGED options

\* newRequest returns to HealthCheck, which runs to its end
HealthCheckResolve(c, w) ==
  /\ calls[c].pc = "inflight"
  /\ calls[c].op = "HealthCheck"
  /\ \E net \in NetOutcomes(Readable(calls[c], HealthBodiesOf(w))) :
       Set(c, HealthCheckResume(calls[c], net))
  /\ UNCHANGED options

\* the caller has taken the result; the slot serves its next call
Return(c) ==
  /\ calls[c].pc = "done"
  /\ Set(c, IdleCall)
  /\ UNCHANGED options

\* no other call is under way
Alone(c) == \A d \in Calls \ {c} : calls[d].pc = "idle"

Init ==
  /\ options \in [Url : BaseUrls]
  /\ calls = [c \in Calls |-> IdleCall]

\* one call at a time, over everything the caller and the server may supply
Next ==
  \E c \in Calls :
    \/ Alone(c) /\ CallGetConfigs(c)
    \/ Alone(c) /\ CallHealthCheck(c, "sequential")
    \/ Cancel(c)
    \/ GetConfigsBuildStep(c)
    \/ HealthCheckBuildStep(c)
    \/ Send(c)
    \/ GetConfigsResolve(c, "sequential")
    \/ HealthCheckResolve(c, "sequential")
    \/ Return(c)

Spec == Init /\ [][Next]_vars

----------------------------------------------------------------------------
(* Concurrent callers: every slot may have a call under way.               *)

InitConc ==
  /\ options \in [Url : ConcUrls]
  /\ calls = [c \in Calls |-> IdleCall]

NextConc ==
  \E c \in Calls :
    \/ CallGetConfigs(c)
    \/ CallHealthCheck(c, "concurrent")
    \/ Cancel(c)
    \/ GetConfigsBuildStep(c)
    \/ HealthCheckBuildStep(c)
    \/ Send(c)
    \/ GetConfigsResolve(c, "concurrent")
    \/ HealthCheckResolve(c, "concurrent")
    \/ Return(c)

SpecConc == InitConc /\ [][NextConc]_vars

----------------------------------------------------------------------------
(* Properties                                                              *)

Done(c) == calls[c].pc = "done"
IsGetConfigs(c) == calls[c].op = "GetConfigs"
IsHealthCheck(c) == calls[c].op = "HealthCheck"

\* newRequest gave the call the network's answer, a 2xx one
GotPayload(c) ==
  /\ Done(c)
  /\ calls[c].net.kind = "response"
  /\ Is2xx(calls[c].net.status)

\* newRequest gave the call the network's answer, not a 2xx one
GotFailureStatus(c) ==
  /\ Done(c)
  /\ calls[c].net.kind = "response"
  /\ ~Is2xx(calls[c].net.status)

\* the payload is a listing: an object whose members are all configs
IsListing(data) ==
  /\ data.kind = "object"
  /\ \A i \in 1..Len(data.members) : data.members[i].val \in ConfigValues

\* the mapping a listing denotes: the last member of a key gives its value
KeysOf(members) == {members[i].key : i \in 1..Len(members)}
LastOf(members, k) ==
  CHOOSE i \in 1..Len(members) :
    /\ members[i].key = k
    /\ \A j \in (i+1)..Len(members) : members[j].key # k
ConfigOf(val) ==
  IF val = FileConfig THEN [Type |-> <<"f">>, DockerBased |-> TRUE]
  ELSE [Type |-> <<"o">>, DockerBased |-> FALSE]
MappingOf(members) ==
  [k \in KeysOf(members) |-> ConfigOf(members[LastOf(members, k)].val)]

\* the place of key k among keys, in ascending byte-wise order
Rank(keys, k) == Cardinality({j \in keys : StrLess(j, k)}) + 1

\* C1: for a non-empty listing answered with success, GetConfigs returns
\* as many configs as the mapping has entries, the i-th being the value
\* of the i-th smallest key in byte-wise order, whatever the order of the
\* members in the payload and of the iteration over the decoded map.
C1_SortedByName ==
  \A c \in Calls :
    (GotPayload(c) /\ IsGetConfigs(c) /\ IsListing(calls[c].net.data)
       /\ calls[c].net.data.members # <<>>)
    => LET m == MappingOf(calls[c].net.data.members)
           items == calls[c].result.slice.items
       IN  /\ calls[c].err = NoError
           /\ calls[c].result.kind = "list"
           /\ Len(items) = Cardinality(DOMAIN m)
           /\ \A k \in DOMAIN m : items[Rank(DOMAIN m, k)] = m[k]

\* a listing of three analyzers, sent in descending order of name with a
\* repeated key, has been returned as three configs
C1_Witness ==
  \E c \in Calls :
    /\ GotPayload(c) /\ IsGetConfigs(c)
    /\ calls[c].net.data =
         JObject(<<Member(<<"a", "B">>, FileConfig),
                   Member(<<"a">>, ObservableConfig),
                   Member(<<"B">>, FileConfig)>>)
    /\ Len(calls[c].result.slice.items) = 3

\* C2: a success answer carrying the empty mapping makes GetConfigs
\* return an empty, non-nil sequence and a nil error.
C2_EmptyListing ==
  \A c \in Calls :
    (GotPayload(c) /\ IsGetConfigs(c) /\ calls[c].net.data = JObject(<<>>))
    => /\ calls[c].err = NoError
       /\ calls[c].result.kind = "list"
       /\ ~calls[c].result.slice.isNil
       /\ calls[c].result.slice.items = <<>>

C2_Witness ==
  \E c \in Calls :
    /\ GotPayload(c) /\ IsGetConfigs(c)
    /\ calls[c].net.data = JObject(<<>>)
    /\ calls[c].result.kind = "list"

\* the value a method returns beside a non-nil error
ZeroResult(c) == IF IsGetConfigs(c) THEN NilResult ELSE BoolResult(FALSE)

\* C3: a non-2xx answer makes GetConfigs and HealthCheck return an
\* HTTPStatusError carrying the status of the answer, beside no result.
C3_StatusError ==
  \A c \in Calls :
    GotFailureStatus(c)
    => /\ calls[c].err = HTTPStatusError(calls[c].net.status)
       /\ calls[c].result = ZeroResult(c)

C3_Witness ==
  \E c \in Calls :
    /\ GotFailureStatus(c) /\ IsGetConfigs(c)
    /\ calls[c].net.status = 404
    /\ calls[c].err.code = 404

\* a name without special characters
PlainNames == Strs({"a", "B"}, MaxNameLen)

\* C4: for a plain analyzer name and a success answer carrying a status
\* record, HealthCheck returns the boolean of the record and a nil error.
C4_StatusRoundTrip ==
  \A c \in Calls :
    \A b \in BOOLEAN :
      (GotPayload(c) /\ IsHealthCheck(c)
         /\ calls[c].analyzerName \in PlainNames
         /\ calls[c].net.data = JObject(<<Member(TagStatus, JBool(b))>>))
      => /\ calls[c].result = BoolResult(b)
         /\ calls[c].err = NoError

C4_Witness ==
  \E c \in Calls :
    /\ GotPayload(c) /\ IsHealthCheck(c)
    /\ calls[c].analyzerName = <<"a">>
    /\ calls[c].net.data = JObject(<<Member(TagStatus, JBool(FALSE))>>)
    /\ calls[c].result = BoolResult(FALSE)
    /\ calls[c].err = NoError

ExpectedShape(c) ==
  IF IsGetConfigs(c) THEN IsListing(calls[c].net.data)
  ELSE calls[c].net.data \in StatusRecords

\* C6: a success answer whose payload is no JSON, or has not the expected
\* shape, makes GetConfigs and HealthCheck return a decode error beside
\* no result.
C6_DecodeError ==
  \A c \in Calls :
    (GotPayload(c) /\ ~ExpectedShape(c))
    => /\ calls[c].err \in DecodeErrors
       /\ calls[c].result = ZeroResult(c)

\* C7: every request GetConfigs and HealthCheck hand to the transport
\* client is a GET with no body and content type application/json.
C7_GetNoBodyJson ==
  \A c \in Calls :
    calls[c].pc \in {"built", "inflight", "done"}
    => /\ calls[c].args.method = "GET"
       /\ calls[c].args.body = "nil"
       /\ calls[c].args.contentType = "application/json"
       /\ calls[c].request \in {NoRequest, calls[c].args}

C7_Witness ==
  \E c \in Calls :
    /\ calls[c].pc = "inflight" /\ IsGetConfigs(c)
    /\ calls[c].request = calls[c].args
    /\ calls[c].request.method = "GET"

\* "/api/analyzer/" and "/healthcheck", the two sides of the parameter
HealthCheckPrefix == SubSeq(ANALYZER_HEALTHCHECK_URL, 1, 14)
HealthCheckSuffix == SubSeq(ANALYZER_HEALTHCHECK_URL, 17, 28)

\* C8: HealthCheck targets the base URL, unchanged, followed by the route
\* with the analyzer name in the place of its parameter, verbatim.
C8_HealthCheckUrl ==
  \A c \in Calls :
    (IsHealthCheck(c) /\ calls[c].pc \in {"built", "inflight", "done"})
    => calls[c].args.url =
         options.Url \o HealthCheckPrefix \o calls[c].analyzerName
                     \o HealthCheckSuffix

\* the steps of a call, in the order of the code
StepNames == <<"buildRequest", "newRequest", "Unmarshal">>

\* C9: a call runs buildRequest, newRequest and the decoding in this
\* order, each at most once, stops at the first that fails, and returns
\* the error of that step beside no result.
C9_LinearSteps ==
  \A c \in Calls :
    LET t == calls[c].trace
    IN  /\ Len(t) <= 3
        /\ \A i \in 1..Len(t) : t[i].step = StepNames[i]
        /\ \A i \in 1..(Len(t) - 1) : t[i].err = NoError
        /\ ~Done(c) => \A i \in 1..Len(t) : t[i].err = NoError
        /\ Done(c) =>
             /\ Len(t) >= 1
             /\ Len(t) < 3 => t[Len(t)].err # NoError
             /\ calls[c].err = t[Len(t)].err
             /\ calls[c].err # NoError => calls[c].result = ZeroResult(c)

C9_Witness ==
  \E c \in Calls :
    /\ Done(c)
    /\ Len(calls[c].trace) = 2
    /\ calls[c].err = NetworkError

\* what a call is given: its arguments, its context, the transport's
\* verdict on its URL and the network's answer
SameInputs(c, d) ==
  /\ calls[c].op = calls[d].op
  /\ calls[c].analyzerName = calls[d].analyzerName
  /\ calls[c].cancelledAt = calls[d].cancelledAt
  /\ calls[c].net = calls[d].net
  /\ calls[c].trace[1].err = calls[d].trace[1].err

\* two finished calls that were given the same return the same
SameInputsSameOutputs ==
  \A c, d \in Calls :
    (Done(c) /\ Done(d) /\ SameInputs(c, d))
    => /\ calls[c].result = calls[d].result
       /\ calls[c].err = calls[d].err
       /\ calls[c].args = calls[d].args

\* a step is the step of one call
OneCallMoves ==
  \A c, d \in Calls :
    (c # d /\ calls'[c] # calls[c]) => calls'[d] = calls[d]

\* C10: under every interleaving of concurrent calls, no step changes the
\* client's options, every step changes the state of one call only, and
\* calls given the same arguments and answers return the same.
C10_Independent ==
  [][/\ options' = options
     /\ OneCallMoves
     /\ SameInputsSameOutputs']_vars

C10_Witness ==
  \E c, d \in Calls :
    /\ c # d
    /\ Done(c) /\ IsGetConfigs(c) /\ calls[c].err = NoError
    /\ Len(calls[c].result.slice.items) = 2
    /\ Done(d) /\ IsGetConfigs(d) /\ calls[d].err = SyntaxError

====
